---- MODULE Spec2Model ----
(***************************************************************************)
(* Model of src/src/App.js, the time zone converter component.             *)
(*                                                                         *)
(* Times are whole minutes since 1970-01-01T00:00Z (the component only     *)
(* ever holds whole-minute instants: the clock is truncated to the minute  *)
(* and the date/time input has minute resolution).  Strings are TLA+       *)
(* strings, taken apart with Len and SubSeq.  The date/time library        *)
(* (Luxon) and the zone rule database are modelled by what the calls of    *)
(* App.js do: calendar arithmetic, offset lookup, offset fix-up, ISO       *)
(* formatting and parsing.                                                 *)
(***************************************************************************)
EXTENDS Integers, Sequences, FiniteSets, TLC

VARIABLES
    allZones,     \* useMemo(() => getAllTimezones(), [])
    localZone,    \* useMemo(() => DateTime.local().zoneName, []); "" when the runtime reports none
    sourceZone,   \* useState
    targetZone,   \* useState
    sourceISO,    \* useState
    filter,       \* useState
    clock,        \* the wall clock read by DateTime.local() / Settings.now(), in minutes
    sysTz,        \* the zone whose rules the runtime's system zone follows
    typed,        \* e.target.value of the last change event of the date/time input
    beforeSwap,   \* the values swapZones closed over, while the last event is a swap
    fmtIn,        \* offsetMinutes last handed to the offset formatter
    fmtOut        \* the text it returned

vars == <<allZones, localZone, sourceZone, targetZone, sourceISO, filter,
          clock, sysTz, typed, beforeSwap, fmtIn, fmtOut>>

-----------------------------------------------------------------------------
(* Strings *)

Digits == "0123456789"

DigitChar(n) == SubSeq(Digits, n + 1, n + 1)

\* the value of each digit character
DigitValues == [c \in {DigitChar(n) : n \in 0..9} |-> CHOOSE n \in 0..9 : DigitChar(n) = c]

IsDigit(c) == c \in DOMAIN DigitValues

DigitVal(c) == DigitValues[c]

CharAt(s, i) == SubSeq(s, i, i)

AllDigits(s) == \A i \in 1..Len(s) : IsDigit(CharAt(s, i))

RECURSIVE NatToString(_)
\* String(n) for an integer n >= 0
NatToString(n) ==
    IF n < 10 THEN DigitChar(n) ELSE NatToString(n \div 10) \o DigitChar(n % 10)

RECURSIVE ParseNat(_)
\* the number a non-empty string of digits denotes
ParseNat(s) ==
    IF Len(s) = 1 THEN DigitVal(s)
    ELSE 10 * ParseNat(SubSeq(s, 1, Len(s) - 1)) + DigitVal(CharAt(s, Len(s)))

RECURSIVE padStart(_, _, _)
\* s.padStart(n, pad), pad a single character
padStart(s, n, pad) == IF Len(s) >= n THEN s ELSE padStart(pad \o s, n, pad)

Abs(x) == IF x < 0 THEN -x ELSE x

UpperChars == "ABCDEFGHIJKLMNOPQRSTUVWXYZ"
LowerChars == "abcdefghijklmnopqrstuvwxyz"

\* the lower-case letter of each upper-case letter
LowerOfUpper ==
    [c \in {CharAt(UpperChars, i) : i \in 1..Len(UpperChars)} |->
       CharAt(LowerChars, CHOOSE j \in 1..Len(UpperChars) : CharAt(UpperChars, j) = c)]

LowerChar(c) == IF c \in DOMAIN LowerOfUpper THEN LowerOfUpper[c] ELSE c

RECURSIVE toLowerCase(_)
toLowerCase(s) ==
    IF s = "" THEN "" ELSE LowerChar(CharAt(s, 1)) \o toLowerCase(SubSeq(s, 2, Len(s)))

RECURSIVE trim(_)
\* String.prototype.trim for the white space the model's queries hold (spaces)
trim(s) ==
    IF s = "" THEN ""
    ELSE IF CharAt(s, 1) = " " THEN trim(SubSeq(s, 2, Len(s)))
    ELSE IF CharAt(s, Len(s)) = " " THEN trim(SubSeq(s, 1, Len(s) - 1))
    ELSE s

\* z.includes(q)
includes(z, q) ==
    \E i \in 1..(Len(z) - Len(q) + 1) : SubSeq(z, i, i + Len(q) - 1) = q

-----------------------------------------------------------------------------
(* Calendar arithmetic (proleptic Gregorian), as Luxon's objToLocalTS and  *)
(* tsToObj do through Date.UTC and the Date getters.                       *)

\* Each step of the day-number arithmetic is an operator of the values the
\* step before it computed.
DaysOfEra(era, yoe, doy) ==
    era * 146097 + (yoe * 365 + yoe \div 4 - yoe \div 100 + doy) - 719468

DaysOfYear(yy, doy) == DaysOfEra(yy \div 400, yy - (yy \div 400) * 400, doy)

\* the day number (days since 1970-01-01) of a calendar date
DaysFromCivil(y, m, d) ==
    DaysOfYear(IF m <= 2 THEN y - 1 ELSE y,
               (153 * (IF m > 2 THEN m - 3 ELSE m + 9) + 2) \div 5 + d - 1)

CivilOfMonth(y0, m, d) ==
    [year |-> y0 + (IF m <= 2 THEN 1 ELSE 0), month |-> m, day |-> d]

CivilOfMp(y0, doy, mp) ==
    CivilOfMonth(y0, IF mp < 10 THEN mp + 3 ELSE mp - 9, doy - (153 * mp + 2) \div 5 + 1)

CivilOfDoy(y0, doy) == CivilOfMp(y0, doy, (5 * doy + 2) \div 153)

CivilOfYoe(era, doe, yoe) ==
    CivilOfDoy(yoe + era * 400, doe - (365 * yoe + yoe \div 4 - yoe \div 100))

CivilOfDoe(era, doe) ==
    CivilOfYoe(era, doe,
               (doe - doe \div 1460 + doe \div 36524 - doe \div 146096) \div 365)

CivilOfShifted(z) == CivilOfDoe(z \div 146097, z - (z \div 146097) * 146097)

\* the calendar date of a day number
CivilFromDays(z0) == CivilOfShifted(z0 + 719468)

isLeapYear(y) == y % 4 = 0 /\ (y % 100 # 0 \/ y % 400 = 0)

daysInMonth(y, m) ==
    IF m = 2 THEN (IF isLeapYear(y) THEN 29 ELSE 28)
    ELSE IF m \in {4, 6, 9, 11} THEN 30 ELSE 31

\* the local time stamp of civil fields: the minutes of that wall time read as UTC
objToLocalTS(c) ==
    DaysFromCivil(c.year, c.month, c.day) * 1440 + c.hour * 60 + c.minute

ObjOf(date, rest) ==
    [year |-> date.year, month |-> date.month, day |-> date.day,
     hour |-> rest \div 60, minute |-> rest % 60]

\* the civil fields an instant shows at an offset
tsToObj(ts, o) == ObjOf(CivilFromDays((ts + o) \div 1440), (ts + o) % 1440)

\* an instant given by its UTC civil fields
UTC(y, mo, d, h, mi) ==
    objToLocalTS([year |-> y, month |-> mo, day |-> d, hour |-> h, minute |-> mi])

-----------------------------------------------------------------------------
(* The zone catalog *)

COMMON_TIMEZONES ==
    << "America/Anchorage", "America/Chicago", "America/Denver", "America/Edmonton",
       "America/Halifax", "America/Los_Angeles", "America/Mexico_City", "America/New_York",
       "America/Phoenix", "America/Toronto", "America/Vancouver", "America/Winnipeg",
       "America/Bogota", "America/Sao_Paulo",
       "Atlantic/Reykjavik", "Europe/Dublin", "Europe/Lisbon", "Europe/London",
       "Europe/Madrid", "Europe/Paris", "Europe/Berlin", "Europe/Rome", "Europe/Stockholm",
       "Europe/Athens", "Europe/Helsinki", "Europe/Moscow", "Africa/Cairo",
       "Africa/Johannesburg",
       "Asia/Dubai", "Asia/Kolkata", "Asia/Karachi", "Asia/Bangkok", "Asia/Singapore",
       "Asia/Hong_Kong", "Asia/Tokyo", "Asia/Seoul", "Asia/Shanghai", "Australia/Perth",
       "Australia/Adelaide", "Australia/Sydney", "Pacific/Auckland" >>

\* What Intl.supportedValuesOf?.("timeZone") can give: undefined where the
\* runtime has no such function, an empty list, or the runtime's canonical
\* identifiers (a short list here; "UTC" is not among the identifiers the
\* common runtimes return).
SupportedAbsent == [present |-> FALSE, list |-> << >>]
SupportedEmpty  == [present |-> TRUE, list |-> << >>]
SupportedList   ==
    [present |-> TRUE,
     list |-> << "America/Toronto", "America/Winnipeg", "Asia/Kolkata",
                 "Europe/London", "Pacific/Apia" >>]

getAllTimezones(sup) ==
    IF sup.present /\ Len(sup.list) # 0 THEN sup.list ELSE COMMON_TIMEZONES

Range(seq) == {seq[i] : i \in 1..Len(seq)}

-----------------------------------------------------------------------------
(* The zone rule database behind Luxon's IANAZone.offset (Intl): for each  *)
(* zone the offset before the first listed transition and the transitions  *)
(* of the years the model's clock and inputs fall in (2010-2012, 2024).    *)

Tzdb ==
    [z \in {"UTC", "Asia/Kolkata", "America/Toronto", "America/Winnipeg",
            "Europe/London", "Pacific/Apia"} |->
       CASE z = "UTC" -> [base |-> 0, trans |-> << >>]
         [] z = "Asia/Kolkata" -> [base |-> 330, trans |-> << >>]
         [] z = "America/Toronto" ->
              [base |-> -300,
               trans |-> << [at |-> UTC(2010, 3, 14, 7, 0), off |-> -240],
                            [at |-> UTC(2010, 11, 7, 6, 0), off |-> -300],
                            [at |-> UTC(2024, 3, 10, 7, 0), off |-> -240],
                            [at |-> UTC(2024, 11, 3, 6, 0), off |-> -300] >>]
         [] z = "America/Winnipeg" ->
              [base |-> -360,
               trans |-> << [at |-> UTC(2010, 3, 14, 8, 0), off |-> -300],
                            [at |-> UTC(2010, 11, 7, 7, 0), off |-> -360],
                            [at |-> UTC(2024, 3, 10, 8, 0), off |-> -300],
                            [at |-> UTC(2024, 11, 3, 7, 0), off |-> -360] >>]
         [] z = "Europe/London" ->
              [base |-> 0,
               trans |-> << [at |-> UTC(2010, 3, 28, 1, 0), off |-> 60],
                            [at |-> UTC(2010, 10, 31, 1, 0), off |-> 0],
                            [at |-> UTC(2024, 3, 31, 1, 0), off |-> 60],
                            [at |-> UTC(2024, 10, 27, 1, 0), off |-> 0] >>]
         [] z = "Pacific/Apia" ->
              \* UTC-11 with daylight saving time in 2010/11, across the date
              \* line at the end of 2011, UTC+13 since
              [base |-> -660,
               trans |-> << [at |-> UTC(2010, 9, 26, 11, 0), off |-> -600],
                            [at |-> UTC(2011, 4, 2, 14, 0), off |-> -660],
                            [at |-> UTC(2011, 9, 24, 14, 0), off |-> -600],
                            [at |-> UTC(2011, 12, 30, 10, 0), off |-> 840],
                            [at |-> UTC(2012, 3, 31, 14, 0), off |-> 780] >>]]

\* the identifiers the runtime accepts as zones (IANAZone.isValidZone, and "UTC")
ZoneIsValid(z) == z \in DOMAIN Tzdb \/ z \in Range(COMMON_TIMEZONES)

\* zone.offset(ts); the system zone follows the rules of sysTz
LastOf(r, past) ==
    IF past = {} THEN r.base
    ELSE r.trans[CHOOSE i \in past : \A j \in past : j <= i].off

RuleOffset(r, ts) == LastOf(r, {i \in 1..Len(r.trans) : r.trans[i].at <= ts})

ZoneOffset(z, ts) == RuleOffset(Tzdb[IF z = "system" THEN sysTz ELSE z], ts)

\* zone.isUniversal: only the fixed-offset zone "UTC" among the zones here
IsUniversal(z) == z = "UTC"

-----------------------------------------------------------------------------
(* Luxon's DateTime, as far as App.js uses it *)

DT(ts, z, o) == [kind |-> "dt", valid |-> TRUE, ts |-> ts, zone |-> z, o |-> o]

\* DateTime.invalid(reason)
InvalidDT(reason) == [kind |-> reason, valid |-> FALSE, ts |-> 0, zone |-> "", o |-> 0]

\* what targetDT is while sourceDT is invalid
NullDT == [kind |-> "null", valid |-> FALSE, ts |-> 0, zone |-> "", o |-> 0]

\* dt.c, the civil fields dt shows
Civil(dt) == tsToObj(dt.ts, dt.o)

\* Luxon's fixOffset: the instant and offset of a local time stamp in a zone,
\* starting from the provisional offset o
\* the hole branch with the smaller and the larger offset exchanged
fixOffsetHoleBackward(localTS, utcGuess2, o2, o3) ==
    IF o2 = o3 THEN <<utcGuess2, o2>>
    ELSE <<localTS - (IF o2 < o3 THEN o3 ELSE o2), IF o2 < o3 THEN o2 ELSE o3>>

\* the third step: o3 is the zone's offset at the second guess
fixOffsetHole(localTS, utcGuess2, o2, o3) ==
    IF o2 = o3 THEN <<utcGuess2, o2>>
    ELSE <<localTS - (IF o2 < o3 THEN o2 ELSE o3), IF o2 < o3 THEN o3 ELSE o2>>

\* the second step: o2 is the zone's offset at the first guess
fixOffsetRetry(localTS, o, tz, utcGuess, o2) ==
    IF o = o2 THEN <<utcGuess, o>>
    ELSE fixOffsetHole(localTS, utcGuess - (o2 - o), o2,
                       ZoneOffset(tz, utcGuess - (o2 - o)))

fixOffset(localTS, o, tz) ==
    fixOffsetRetry(localTS, o, tz, localTS - o, ZoneOffset(tz, localTS - o))

\* hasInvalidGregorianData / hasInvalidTimeData
ValidCivil(c) ==
    /\ c.month \in 1..12
    /\ c.day \in 1..daysInMonth(c.year, c.month)
    /\ c.hour \in 0..23
    /\ c.minute \in 0..59

\* DateTime.fromObject(c, {zone}): the provisional offset is the zone's
\* offset at the current time, Settings.now()
DTOfPair(r, zone) == DT(r[1], zone, r[2])

fromObject(c, zone) ==
    IF ~ZoneIsValid(zone) THEN InvalidDT("unsupported zone")
    ELSE IF ~ValidCivil(c) THEN InvalidDT("unit out of range")
    ELSE DTOfPair(fixOffset(objToLocalTS(c), ZoneOffset(zone, clock), zone), zone)

\* dt.setZone(zone, {keepLocalTime: true}): the wall time kept, the instant moved
setZoneKeepLocalTime(dt, zone) ==
    IF ~dt.valid THEN dt
    ELSE IF ~ZoneIsValid(zone) THEN InvalidDT("unsupported zone")
    ELSE DTOfPair(fixOffset(dt.ts + dt.o, dt.o, zone), zone)

\* dt.setZone(zone), keepLocalTime false
setZone(dt, zone) ==
    IF ~dt.valid THEN dt
    ELSE IF ~ZoneIsValid(zone) THEN InvalidDT("unsupported zone")
    ELSE DT(dt.ts, zone, ZoneOffset(zone, dt.ts))

\* DateTime.local()
DateTimeLocal == DT(clock, "system", ZoneOffset("system", clock))

-----------------------------------------------------------------------------
(* Formatting and parsing *)

pad2(n) == padStart(NatToString(n), 2, "0")

pad4(n) == padStart(NatToString(n), 4, "0")

\* dt.toFormat("yyyy-LL-dd'T'HH:mm")
CivilText(c) ==
    pad4(c.year) \o "-" \o pad2(c.month) \o "-" \o pad2(c.day)
    \o "T" \o pad2(c.hour) \o ":" \o pad2(c.minute)

toDatetimeLocal(dt) == CivilText(Civil(dt))

\* the tokens of "yyyy-LL-dd'T'HH:mm" matched against a text (four-digit years)
LocalShape(text) ==
    /\ Len(text) = 16
    /\ CharAt(text, 5) = "-" /\ CharAt(text, 8) = "-"
    /\ CharAt(text, 11) = "T" /\ CharAt(text, 14) = ":"
    /\ AllDigits(SubSeq(text, 1, 4)) /\ AllDigits(SubSeq(text, 6, 7))
    /\ AllDigits(SubSeq(text, 9, 10)) /\ AllDigits(SubSeq(text, 12, 13))
    /\ AllDigits(SubSeq(text, 15, 16))

ParseLocal(text) ==
        IF ~LocalShape(text)
        THEN [ok |-> FALSE, c |-> [year |-> 0, month |-> 0, day |-> 0, hour |-> 0, minute |-> 0]]
        ELSE [ok |-> TRUE,
              c |-> [year   |-> ParseNat(SubSeq(text, 1, 4)),
                     month  |-> ParseNat(SubSeq(text, 6, 7)),
                     day    |-> ParseNat(SubSeq(text, 9, 10)),
                     hour   |-> ParseNat(SubSeq(text, 12, 13)),
                     minute |-> ParseNat(SubSeq(text, 15, 16))]]

\* DateTime.fromFormat(text, "yyyy-LL-dd'T'HH:mm", {zone})
fromParsed(p, zone) ==
    IF ~p.ok THEN InvalidDT("unparsable") ELSE setZone(fromObject(p.c, zone), zone)

fromFormat(text, zone) == fromParsed(ParseLocal(text), zone)

\* what toISO gives for an invalid DateTime
JSNull == "null"

\* dt.toISO({suppressMilliseconds: true}): seconds and milliseconds are zero
toISO(dt) ==
    IF ~dt.valid THEN JSNull
    ELSE toDatetimeLocal(dt) \o ":00" \o
         (IF IsUniversal(dt.zone) /\ dt.o = 0 THEN "Z"
          ELSE (IF dt.o < 0 THEN "-" ELSE "+")
               \o pad2(Abs(dt.o) \div 60) \o ":" \o pad2(Abs(dt.o) % 60))

\* x || ""
OrEmpty(x) == IF x = JSNull THEN "" ELSE x

\* the offset suffix of an ISO text: "Z" or a sign, hours, ":" and minutes
ParseISOOffset(text) ==
    IF text = "Z" THEN [ok |-> TRUE, off |-> 0]
    ELSE IF /\ Len(text) = 6
            /\ CharAt(text, 1) \in {"+", "-"}
            /\ CharAt(text, 4) = ":"
            /\ AllDigits(SubSeq(text, 2, 3)) /\ AllDigits(SubSeq(text, 5, 6))
         THEN [ok |-> TRUE,
               off |-> (IF CharAt(text, 1) = "-" THEN -1 ELSE 1)
                       * (60 * ParseNat(SubSeq(text, 2, 3)) + ParseNat(SubSeq(text, 5, 6)))]
         ELSE [ok |-> FALSE, off |-> 0]

\* DateTime.fromISO(text, {zone}) for the texts toISO writes, and "": the
\* offset in the text fixes the instant, the zone option only sets the zone
\* the result is shown in
fromISOParts(p, sec, z, zone) ==
    IF ~p.ok \/ sec # ":00" \/ ~z.ok THEN InvalidDT("unparsable")
    ELSE IF ~ValidCivil(p.c) THEN InvalidDT("unit out of range")
    ELSE setZone(DT(objToLocalTS(p.c) - z.off, "fixed", z.off), zone)

fromISO(text, zone) ==
    IF Len(text) < 20 THEN InvalidDT("unparsable")
    ELSE fromISOParts(ParseLocal(SubSeq(text, 1, 16)), SubSeq(text, 17, 19),
                      ParseISOOffset(SubSeq(text, 20, Len(text))), zone)

\* the sign, hours and minutes text of formatOffset
OffsetParts(sign, abs) ==
    "UTC" \o sign \o padStart(NatToString(abs \div 60), 2, "0")
          \o ":" \o padStart(NatToString(abs % 60), 2, "0")

\* the sign test written > 0, the hours not padded
OffsetTextUnpadded(offsetMinutes) ==
    "UTC" \o (IF offsetMinutes > 0 THEN "+" ELSE "-")
          \o NatToString(Abs(offsetMinutes) \div 60)
          \o ":" \o padStart(NatToString(Abs(offsetMinutes) % 60), 2, "0")

OffsetText(offsetMinutes) ==
    OffsetParts(IF offsetMinutes >= 0 THEN "+" ELSE "-", Abs(offsetMinutes))

\* formatOffset(zone, at); the offset of an invalid DateTime is NaN, which is
\* not >= 0 and prints as "NaN"
OffsetTextOf(dt) == IF ~dt.valid THEN "UTC-NaN:NaN" ELSE OffsetText(dt.o)

formatOffset(zone, at) == OffsetTextOf(setZone(at, zone))

-----------------------------------------------------------------------------
(* What the component derives from its state on each render *)

sourceDT == fromISO(OrEmpty(sourceISO), sourceZone)

targetDT == IF ~sourceDT.valid THEN NullDT ELSE setZone(sourceDT, targetZone)

\* z.toLowerCase() for the identifiers a catalog can hold, computed once
LowerZoneName ==
    [z \in Range(COMMON_TIMEZONES) \cup Range(SupportedList.list) |-> toLowerCase(z)]

\* the identifiers not lower-cased before the match
filterByCaseSensitive(q) ==
    IF q = "" THEN allZones
    ELSE SelectSeq(allZones, LAMBDA z : includes(z, q))

filterBy(q) ==
    IF q = "" THEN allZones
    ELSE SelectSeq(allZones, LAMBDA z : includes(LowerZoneName[z], q))

filteredZones == filterBy(toLowerCase(trim(filter)))

\* the value shown in the date/time input
inputValue == toDatetimeLocal(IF sourceDT.valid THEN sourceDT ELSE DateTimeLocal)

\* the value of <option value={localZone}>: without a value, the option's text
\* (the dash written as "-")
LocalOptionValue == IF localZone = "" THEN "Local -" ELSE localZone

QuickPicks ==
    {LocalOptionValue, "UTC", "America/Toronto", "America/Winnipeg",
     "Asia/Kolkata", "Europe/London"}

SourceOptions == QuickPicks \cup Range(filteredZones)

TargetOptions == QuickPicks \cup Range(allZones)

-----------------------------------------------------------------------------
(* Bounds and the inputs the environment supplies *)

MaxTyped == 7

MaxQuery == 4

NumClocks == 2

MaxWest == 720

MaxEast == 840

Min(a, b) == IF a < b THEN a ELSE b

\* values the date/time input hands to its change handler
TypedValues ==
    << "2024-07-01T12:00",    \* an ordinary summer time
       "2024-03-10T02:30",    \* skipped in America/Toronto (02:00 -> 03:00)
       "2024-11-03T01:30",    \* twice in America/Toronto (02:00 -> 01:00)
       "",                    \* the input cleared
       "2010-09-26T11:30",    \* as UTC, half an hour after Pacific/Apia's 2010 spring forward
       "2024-04-31T10:00",    \* no such day
       "2010-09-26T00:30",    \* skipped in Pacific/Apia (00:00 -> 01:00)
       "2024-03-31T01:30" >>  \* skipped in Europe/London (01:00 -> 02:00)

Typed == {TypedValues[i] : i \in 1..Min(MaxTyped, Len(TypedValues))}

\* texts typed into the search box
QueryValues == << "", "toronto", " Asia", "  ", "LONDON", "zz" >>

Queries == {QueryValues[i] : i \in 1..Min(MaxQuery, Len(QueryValues))}

\* readings of the wall clock, in increasing order: winter, summer, winter
ClockValues ==
    << UTC(2024, 1, 15, 15, 7), UTC(2024, 7, 15, 15, 7), UTC(2024, 12, 1, 15, 7) >>

Clocks == {ClockValues[i] : i \in 1..Min(NumClocks, Len(ClockValues))}

\* the runtime's system zone: the rules it follows and the name it reports
\* ("" where Intl reports no name)
SystemZones ==
    { [tz |-> "America/Toronto", name |-> "America/Toronto"],
      [tz |-> "UTC", name |-> "UTC"] }

SystemZoneUnnamed == [tz |-> "Asia/Kolkata", name |-> ""]

NoInput == "(no event)"

NoSwap ==
    [swapped |-> FALSE, sourceZone |-> "", targetZone |-> "", sourceISO |-> "", filter |-> ""]

-----------------------------------------------------------------------------
(* The component *)

\* localZone || "America/Toronto"
DefaultSourceZoneNoFallback(name) == name

DefaultSourceZone(name) == IF name # "" THEN name ELSE "America/Toronto"

\* the state after the first render, in a runtime with the supported-values
\* answer sup, the system zone sys and the clock reading c0
Mount(sup, sys, c0) ==
    /\ clock = c0
    /\ sysTz = sys.tz
    /\ allZones = getAllTimezones(sup)
    /\ localZone = sys.name
    /\ sourceZone = DefaultSourceZone(sys.name)
    /\ targetZone = "UTC"
    /\ sourceISO = toISO(DateTimeLocal)
    /\ filter = ""
    /\ typed = NoInput
    /\ beforeSwap = NoSwap
    /\ fmtIn = 0
    /\ fmtOut = OffsetText(0)

Init == \E sys \in SystemZones, c0 \in Clocks : Mount(SupportedList, sys, c0)

\* the date/time input's onChange
onChangeDateTime(v) ==
    /\ sourceISO' = OrEmpty(toISO(fromFormat(v, sourceZone)))
    /\ typed' = v
    /\ beforeSwap' = NoSwap
    /\ UNCHANGED <<allZones, localZone, sourceZone, targetZone, filter, clock, sysTz,
                   fmtIn, fmtOut>>

\* the search box's onChange
onChangeFilter(q) ==
    /\ filter' = q
    /\ beforeSwap' = NoSwap
    /\ UNCHANGED <<allZones, localZone, sourceZone, targetZone, sourceISO, clock, sysTz,
                   typed, fmtIn, fmtOut>>

\* the source select's onChange
onChangeSourceZone(z) ==
    /\ sourceZone' = z
    /\ beforeSwap' = NoSwap
    /\ UNCHANGED <<allZones, localZone, targetZone, sourceISO, filter, clock, sysTz,
                   typed, fmtIn, fmtOut>>

\* the target select's onChange
onChangeTargetZone(z) ==
    /\ targetZone' = z
    /\ beforeSwap' = NoSwap
    /\ UNCHANGED <<allZones, localZone, sourceZone, sourceISO, filter, clock, sysTz,
                   typed, fmtIn, fmtOut>>

\* the two setters run one after the other, the second reading the new source
swapZonesSequential ==
    /\ sourceZone' = targetZone
    /\ targetZone' = targetZone
    /\ beforeSwap' = [swapped |-> TRUE, sourceZone |-> sourceZone,
                      targetZone |-> targetZone, sourceISO |-> sourceISO,
                      filter |-> filter]
    /\ UNCHANGED <<allZones, localZone, sourceISO, filter, clock, sysTz, typed,
                   fmtIn, fmtOut>>

\* the Swap button
swapZones ==
    /\ sourceZone' = targetZone
    /\ targetZone' = sourceZone
    /\ beforeSwap' = [swapped |-> TRUE, sourceZone |-> sourceZone,
                      targetZone |-> targetZone, sourceISO |-> sourceISO,
                      filter |-> filter]
    /\ UNCHANGED <<allZones, localZone, sourceISO, filter, clock, sysTz, typed,
                   fmtIn, fmtOut>>

\* time passes
Tick ==
    /\ \E c \in Clocks : c > clock /\ clock' = c
    /\ UNCHANGED <<allZones, localZone, sourceZone, targetZone, sourceISO, filter, sysTz,
                   typed, beforeSwap, fmtIn, fmtOut>>

\* A change event carries a value other than the one the control shows.
EnterDateTime == \E v \in Typed \ {inputValue} : onChangeDateTime(v)

EnterFilter == \E q \in Queries \ {filter} : onChangeFilter(q)

SelectSource == \E z \in SourceOptions \ {sourceZone} : onChangeSourceZone(z)

SelectTarget == \E z \in TargetOptions \ {targetZone} : onChangeTargetZone(z)

Next ==
    \/ EnterDateTime
    \/ EnterFilter
    \/ SelectSource
    \/ SelectTarget
    \/ swapZones
    \/ Tick

Spec == Init /\ [][Next]_vars

-----------------------------------------------------------------------------
(* The catalog and the selects on their own: any answer of the runtime to  *)
(* the supported-values query, no date/time entry.                         *)

InitCatalog ==
    \/ \E sys \in SystemZones : Mount(SupportedList, sys, ClockValues[1])
    \/ \E sys \in SystemZones \cup {SystemZoneUnnamed} :
           Mount(SupportedAbsent, sys, ClockValues[1])
    \/ \E sys \in SystemZones : Mount(SupportedEmpty, sys, ClockValues[1])

NextCatalog ==
    \/ EnterFilter
    \/ SelectSource
    \/ SelectTarget
    \/ swapZones

SpecCatalog == InitCatalog /\ [][NextCatalog]_vars

-----------------------------------------------------------------------------
(* The offset formatter on its own, over every offset in the real range *)

Format(m) ==
    /\ fmtIn' = m
    /\ fmtOut' = OffsetText(m)
    /\ UNCHANGED <<allZones, localZone, sourceZone, targetZone, sourceISO, filter,
                   clock, sysTz, typed, beforeSwap>>

InitFmt == Mount(SupportedList, [tz |-> "UTC", name |-> "UTC"], ClockValues[1])

NextFmt == \E m \in (0 - MaxWest)..MaxEast : Format(m)

SpecFmt == InitFmt /\ [][NextFmt]_vars

-----------------------------------------------------------------------------
(* Vocabulary of the properties *)

Toronto == "America/Toronto"

Kolkata == "Asia/Kolkata"

\* every offset the rules of zone z ever give
OffsetsOf(z) ==
    {Tzdb[z].base} \cup {Tzdb[z].trans[i].off : i \in 1..Len(Tzdb[z].trans)}

\* the instants at which the wall clock of zone z shows the local time stamp L
Readings(z, L) == {L - o : o \in {x \in OffsetsOf(z) : ZoneOffset(z, L - x) = x}}

Least(S) == CHOOSE x \in S : \A y \in S : x <= y

\* v is the text of a calendar-valid civil time
IsCivilText(v) == LocalShape(v) /\ ValidCivil(ParseLocal(v).c)

LocalOf(v) == objToLocalTS(ParseLocal(v).c)

\* the last change of the date/time input carried v, and the stored text is
\* what the handler stores for v in the selected source zone
EnteredHere(v) ==
    /\ typed = v
    /\ sourceZone \in DOMAIN Tzdb
    /\ sourceISO = OrEmpty(toISO(fromFormat(v, sourceZone)))

\* v falls in an hour the wall clock of zone z skips
InGap(v, z) == IsCivilText(v) /\ Readings(z, LocalOf(v)) = {}

OffsetBefore(z, i) == IF i = 1 THEN Tzdb[z].base ELSE Tzdb[z].trans[i - 1].off

\* transition i of zone z skips the local time stamp L
Skips(z, i, L) ==
    /\ Tzdb[z].trans[i].at + OffsetBefore(z, i) <= L
    /\ L < Tzdb[z].trans[i].at + Tzdb[z].trans[i].off

\* L moved forward by the length of the gap of transition i, as text
ShiftedText(z, i, L) ==
    CivilText(tsToObj(L + (Tzdb[z].trans[i].off - OffsetBefore(z, i)), 0))

-----------------------------------------------------------------------------
\* C1: whenever the source date/time is valid, the converted date/time is the
\* same instant, shown at the target zone's offset at that instant: its civil
\* fields are the instant plus that offset. 2024-07-01T12:00 entered in
\* America/Toronto is 2024-07-01T16:00Z and shows 2024-07-01T21:30 in Asia/Kolkata.
C1_SameInstant ==
    /\ sourceDT.valid =>
         /\ targetDT.valid
         /\ targetDT.ts = sourceDT.ts
         /\ targetDT.o = ZoneOffset(targetZone, sourceDT.ts)
         /\ objToLocalTS(Civil(targetDT)) = sourceDT.ts + ZoneOffset(targetZone, sourceDT.ts)
    /\ (EnteredHere("2024-07-01T12:00") /\ sourceZone = Toronto) =>
         /\ sourceDT.ts = UTC(2024, 7, 1, 16, 0)
         /\ targetZone = Kolkata => toDatetimeLocal(targetDT) = "2024-07-01T21:30"

C1_Witness ==
    /\ EnteredHere("2024-07-01T12:00")
    /\ sourceZone = Toronto
    /\ targetZone = Kolkata
    /\ toISO(targetDT) = "2024-07-01T21:30:00+05:30"

C3_FirstOccurrence ==
    \A v \in Typed :
        (EnteredHere(v) /\ IsCivilText(v)
           /\ Cardinality(Readings(sourceZone, LocalOf(v))) > 1) =>
            /\ sourceDT.valid
            /\ sourceDT.ts = Least(Readings(sourceZone, LocalOf(v)))

\* C4 (as claimed): when the source instant is not inside a fall-back overlap
\* of the source zone, the text shown in the date/time input, handed back to
\* the change handler in the same zone, gives the same instant.
C4_RoundTrip ==
    (/\ sourceDT.valid
     /\ Cardinality(Readings(sourceZone, sourceDT.ts + sourceDT.o)) = 1) =>
        /\ fromFormat(inputValue, sourceZone).valid
        /\ fromFormat(inputValue, sourceZone).ts = sourceDT.ts

\* C5 (as claimed): while the entered date/time is invalid there is no
\* converted time and the date/time input shows no date/time in its place;
\* for an unknown zone no offset text is produced.
C5_NoValueOnError ==
    /\ ~sourceDT.valid => (targetDT = NullDT /\ ~LocalShape(inputValue))
    /\ \A z \in {sourceZone, targetZone} :
           ~ZoneIsValid(z) => formatOffset(z, DateTimeLocal) = ""

\* C9 (as claimed): when the source zone changes, the entered civil fields stay
\* the same and the source instant is those fields read in the new zone.
C9_CivilKept ==
    [][(sourceZone' # sourceZone /\ sourceDT.valid /\ ZoneIsValid(sourceZone'))
         => (sourceDT'.valid /\ Civil(sourceDT') = Civil(sourceDT))]_vars

\* C10: a swap makes the source zone the previous target zone and the target
\* zone the previous source zone and leaves the stored date/time and the search
\* filter alone; a swap right after a swap restores the state before the first.
C10_Swap ==
    /\ [](beforeSwap.swapped =>
            /\ sourceZone = beforeSwap.targetZone
            /\ targetZone = beforeSwap.sourceZone
            /\ sourceISO = beforeSwap.sourceISO
            /\ filter = beforeSwap.filter)
    /\ [][(beforeSwap.swapped /\ beforeSwap'.swapped /\ beforeSwap' # beforeSwap) =>
            /\ sourceZone' = beforeSwap.sourceZone
            /\ targetZone' = beforeSwap.targetZone
            /\ sourceISO' = beforeSwap.sourceISO
            /\ filter' = beforeSwap.filter]_vars

C10_Witness ==
    /\ beforeSwap.swapped
    /\ sourceZone # targetZone
    /\ sourceZone = "UTC"
    /\ typed # NoInput
    /\ filter # ""

-----------------------------------------------------------------------------
\* C6: for an offset of m minutes, -720 <= m <= 840, the formatter returns
\* "UTC", then "+" when m >= 0 and "-" when m < 0, then two digits of hours,
\* ":" and two digits of minutes below 60, with 60 * hours + minutes = |m|.
C6_OffsetText ==
    /\ Len(fmtOut) = 9
    /\ SubSeq(fmtOut, 1, 3) = "UTC"
    /\ CharAt(fmtOut, 4) = (IF fmtIn >= 0 THEN "+" ELSE "-")
    /\ AllDigits(SubSeq(fmtOut, 5, 6))
    /\ CharAt(fmtOut, 7) = ":"
    /\ AllDigits(SubSeq(fmtOut, 8, 9))
    /\ ParseNat(SubSeq(fmtOut, 8, 9)) < 60
    /\ 60 * ParseNat(SubSeq(fmtOut, 5, 6)) + ParseNat(SubSeq(fmtOut, 8, 9)) = Abs(fmtIn)
    /\ fmtIn = 330 => fmtOut = "UTC+05:30"
    /\ fmtIn = 765 => fmtOut = "UTC+12:45"
    /\ fmtIn = 0 => fmtOut = "UTC+00:00"
    /\ fmtIn = -300 => fmtOut = "UTC-05:00"

C6_Witness == fmtIn = -300 /\ fmtOut = "UTC-05:00"

-----------------------------------------------------------------------------
\* z contains q, letters compared without regard to case
ContainsIgnoringCase(z, q) ==
    \E i \in 1..(Len(z) - Len(q) + 1) :
        \A k \in 1..Len(q) : LowerChar(CharAt(z, i + k - 1)) = LowerChar(CharAt(q, k))

\* the entries of the full list that contain q, in the order of the full list
EntriesContaining(q) == SelectSeq(allZones, LAMBDA z : ContainsIgnoringCase(z, q))

NonSpaces(q) == {i \in 1..Len(q) : CharAt(q, i) # " "}

\* q without the spaces at its ends
StripSpaces(q) ==
    IF NonSpaces(q) = {} THEN ""
    ELSE SubSeq(q, Least(NonSpaces(q)),
                CHOOSE i \in NonSpaces(q) : \A j \in NonSpaces(q) : j <= i)

\* C7 (as amended): the filtered list is the entries of the full list whose
\* identifier contains the query with the white space at its ends removed,
\* compared without regard to case, in the order of the full list; for an
\* empty or all-blank query it is the full list.
C7_FilterTrimmed ==
    /\ filteredZones = EntriesContaining(StripSpaces(filter))
    /\ StripSpaces(filter) = "" => filteredZones = allZones

C7_Witness ==
    /\ filter = "toronto"
    /\ filteredZones = << "America/Toronto" >>
    /\ Len(allZones) > 1

\* C7 (as claimed): the filtered list is the entries whose identifier contains
\* the query itself.
C7_Filter == filteredZones = EntriesContaining(filter)

\* C8 (as amended): the selected source zone and the selected target zone are
\* each an identifier of the zone catalog or the value of one of the pinned
\* options (the local zone's option, "UTC", "America/Toronto",
\* "America/Winnipeg", "Asia/Kolkata", "Europe/London").
C8_Offered ==
    /\ sourceZone \in QuickPicks \cup Range(allZones)
    /\ targetZone \in QuickPicks \cup Range(allZones)

C8_Witness ==
    /\ beforeSwap.swapped
    /\ sourceZone = "UTC"
    /\ sourceZone \notin Range(allZones)
    /\ targetZone = "Asia/Tokyo"
    /\ allZones = COMMON_TIMEZONES

\* C8 (as claimed): both selected zones are identifiers of the zone catalog.
C8_InCatalog == sourceZone \in Range(allZones) /\ targetZone \in Range(allZones)

====
